---- MODULE Spec2Model ----
(***************************************************************************)
(* The voice pipeline of app/main.py: the stateless query (query_llm), the *)
(* session turn (agent_chat) and clear_session, over the in-memory session *)
(* store chat_history, with the three service adapters (STT, LLM, TTS) and *)
(* the fallback catalogue of app/config/settings.py.                       *)
(*                                                                         *)
(* The handlers are coroutines on one event loop.  The STT and LLM calls   *)
(* are synchronous; the only suspension point of a handler is the await of *)
(* tts_service.generate_speech.  A handler therefore runs atomically from  *)
(* its entry to that await (or to its return), and atomically again from   *)
(* the completion of the await to its return.                              *)
(*                                                                         *)
(* Python lists are objects: chat_history maps a session id to a list      *)
(* object, and the local variable `history` of a handler is a reference to *)
(* a list object.  The model keeps a heap of list objects.                 *)
(***************************************************************************)
EXTENDS Integers, Sequences, FiniteSets, TLC

(***************************************************************************)
(* Bounds of the model.                                                    *)
(***************************************************************************)
\* session ids used by the callers
SessionIds == {"s1", "s2"}
\* handler invocations that can be in flight at the same time
Requests == {"r1", "r2"}
\* settings.max_history_length ranges over 1..MaxHistoryLength
MaxHistoryLength == 2
\* the count of consecutive successful turns is followed up to MaxTurns
MaxTurns == 2
\* the callers of one behaviour: one caller at a time on every session id,
\* or concurrent callers on one session id
Scopes ==
    {[sessions |-> SessionIds, requests |-> {"r1"}],
     [sessions |-> {"s1"}, requests |-> Requests]}

\* Python's None, for the Optional[str] fields
None == "None"
\* Python's None, for the Optional[int] field history_length
NoLength == -1

\* list objects: one per session, one stale list per suspended handler
Objs == 1 .. (Cardinality(SessionIds) + Cardinality(Requests))
\* the null reference
Null == 0

VARIABLES
    scope,          \* the callers of this behaviour, one of Scopes
    settings,       \* the Settings instance, fixed at start-up
    chat_history,   \* session id -> list object, Null when the key is absent
    heap,           \* list object -> sequence of ConversationMessage
    pc,             \* per handler invocation: "idle", "await", "done"
    req,            \* per handler invocation: its local variables
    resp,           \* per handler invocation: the envelope it returns
    calls,          \* per handler invocation: the adapter calls it made
    turns,          \* per session: consecutive successful turns since absent
    appended,       \* per session: the latest messages appended since absent
    cleared,        \* the response of clear_session when it ran last
    unit            \* the latest direct call of an adapter or of get_fallback

vars ==
    <<scope, settings, chat_history, heap, pc, req, resp, calls, turns,
      appended, cleared, unit>>

(***************************************************************************)
(* Python values and list operations.                                      *)
(***************************************************************************)
\* bool(s) of an Optional[str]
bool(s) == s # None /\ s # ""

\* x or d
py_or(x, d) == IF bool(x) THEN x ELSE d

\* l[:n]: the oldest n elements instead of the latest
slice_first(l, n) == IF n >= Len(l) THEN l ELSE SubSeq(l, 1, n)

\* l[-n:]
slice_last(l, n) ==
    IF n = 0 \/ n >= Len(l) THEN l ELSE SubSeq(l, Len(l) - n + 1, Len(l))

\* l[:]: the whole list, its last element included
slice_all(l) == l

\* l[:-1]
slice_but_last(l) == IF Len(l) = 0 THEN l ELSE SubSeq(l, 1, Len(l) - 1)

(***************************************************************************)
(* app/schemas/api_schemas.py                                              *)
(***************************************************************************)
MessageRole == [USER |-> "user", ASSISTANT |-> "assistant"]

ConversationMessage(role, content) == [role |-> role, content |-> content]

TTSRequest(text, voice_id, style) ==
    [text |-> text, voice_id |-> voice_id, style |-> style]

TTSResponse(audio_url, success, error_message) ==
    [audio_url |-> audio_url, success |-> success, error_message |-> error_message]

TranscriptionResponse(transcription, success, error_message) ==
    [transcription |-> transcription, success |-> success,
     error_message |-> error_message]

LLMResponse(response, success, error_message) ==
    [response |-> response, success |-> success, error_message |-> error_message]

VoiceQueryResponse(session_id, audio_url, transcription, llm_response, history_length, error, success) ==
    [session_id |-> session_id, audio_url |-> audio_url,
     transcription |-> transcription, llm_response |-> llm_response,
     history_length |-> history_length, error |-> error, success |-> success]

(***************************************************************************)
(* app/config/settings.py                                                  *)
(***************************************************************************)
\* Optional[str] = None, an empty value in .env, or a key
ApiKeys == {None, "", "key"}

Settings ==
    [assemblyai_api_key : ApiKeys, gemini_api_key : ApiKeys,
     murf_api_key : ApiKeys, max_history_length : 1 .. MaxHistoryLength,
     default_voice_id : {"en-US-natalie"},
     default_voice_style : {"Conversational"}]

get_api_key_status(st) ==
    [assemblyai |-> bool(st.assemblyai_api_key),
     gemini |-> bool(st.gemini_api_key),
     murf |-> bool(st.murf_api_key)]

\* any(status.values()) in place of all(status.values())
any_api_configured(st) ==
    LET status == get_api_key_status(st)
    IN  \E k \in DOMAIN status : status[k]

all_apis_configured(st) ==
    LET status == get_api_key_status(st)
    IN  \A k \in DOMAIN status : status[k]

STT_FAILURE == "I'm having trouble understanding your voice right now. Please try again."
LLM_FAILURE == "I'm having trouble processing your request. Please try again."
TTS_FAILURE == "I'm having trouble speaking right now. Please try again."
GENERAL_FAILURE == "I'm experiencing technical difficulties. Please try again later."
API_KEYS_MISSING == "I'm not properly configured. Please check the server setup."

\* fallback_map.get(error_type), without the default
get_fallback_no_default(error_type) ==
    CASE error_type = "stt_failure" -> STT_FAILURE
      [] error_type = "llm_failure" -> LLM_FAILURE
      [] error_type = "tts_failure" -> TTS_FAILURE
      [] error_type = "general_failure" -> GENERAL_FAILURE
      [] error_type = "api_keys_missing" -> API_KEYS_MISSING
      [] OTHER -> None

get_fallback(error_type) ==
    CASE error_type = "stt_failure" -> STT_FAILURE
      [] error_type = "llm_failure" -> LLM_FAILURE
      [] error_type = "tts_failure" -> TTS_FAILURE
      [] error_type = "general_failure" -> GENERAL_FAILURE
      [] error_type = "api_keys_missing" -> API_KEYS_MISSING
      [] OTHER -> GENERAL_FAILURE

(***************************************************************************)
(* What the three remote services can answer.                              *)
(***************************************************************************)
\* AssemblyAI: a completed transcript (its text may be None), a transcript
\* with status error, or an exception raised by the client library
SttRemote ==
    {[status |-> "completed", text |-> "hello"],
     [status |-> "error", text |-> None],
     [status |-> "raise", text |-> None]}

\* Gemini: a response (its text may be empty), or an exception
LlmRemote ==
    {[status |-> "ok", text |-> "hi there"],
     [status |-> "ok", text |-> ""],
     [status |-> "raise", text |-> None]}

\* Murf: a 2xx answer with or without the audioFile field, a timeout, a
\* non-2xx status, or any other transport error
TtsRemote ==
    {[status |-> "ok", audioFile |-> "http://x/a.mp3"],
     [status |-> "ok", audioFile |-> None],
     [status |-> "timeout", audioFile |-> None],
     [status |-> "http_error", audioFile |-> None],
     [status |-> "raise", audioFile |-> None]}

\* a text of n characters, its characters told apart by their position
LongText(n) == [i \in 1 .. n |-> <<"a", "b", "c">>[(i % 3) + 1]]

\* the characters of the texts of the model; the long ones are named by
\* their length
chars(text) ==
    CASE text = "hi there" -> <<"h", "i", " ", "t", "h", "e", "r", "e">>
      [] text = "hello" -> <<"h", "e", "l", "l", "o">>
      [] text = "long 2999" -> LongText(2999)
      [] text = "long 3000" -> LongText(3000)
      [] text = "long 3001" -> LongText(3001)
      [] text = "long 3500" -> LongText(3500)
      [] OTHER -> <<>>

\* len(text)
TextLen(text) == Len(chars(text))

(***************************************************************************)
(* app/services/stt_service.py                                             *)
(***************************************************************************)
\* transcribe_audio without the test of transcript.status
transcribe_audio_any_status(api_key, remote) ==
    IF ~bool(api_key)
    THEN TranscriptionResponse("", FALSE, "STT service not configured")
    ELSE IF remote.status = "raise"
    THEN TranscriptionResponse("", FALSE, "Transcription failed")
    ELSE TranscriptionResponse(py_or(remote.text, ""), TRUE, None)

\* transcribe_audio without the test of self.api_key
transcribe_audio_unguarded(api_key, remote) ==
    IF remote.status = "raise"
    THEN TranscriptionResponse("", FALSE, "Transcription failed")
    ELSE IF remote.status = "error"
    THEN TranscriptionResponse("", FALSE, "Transcription error")
    ELSE TranscriptionResponse(py_or(remote.text, ""), TRUE, None)

\* STTService.transcribe_audio; `remote` is what AssemblyAI answers if asked
transcribe_audio(api_key, remote) ==
    IF ~bool(api_key)
    THEN TranscriptionResponse("", FALSE, "STT service not configured")
    ELSE IF remote.status = "raise"
    THEN TranscriptionResponse("", FALSE, "Transcription failed")
    ELSE IF remote.status = "error"
    THEN TranscriptionResponse("", FALSE, "Transcription error")
    ELSE TranscriptionResponse(py_or(remote.text, ""), TRUE, None)

(***************************************************************************)
(* app/services/llm_service.py                                             *)
(***************************************************************************)
\* the history handed to genai with the roles of the messages as they are
gemini_history_same_roles(history) ==
    [i \in 1 .. Len(history) |->
        [role |-> history[i].role, parts |-> <<history[i].content>>]]

\* the history as handed to genai: one entry per message, in order
gemini_history(history) ==
    [i \in 1 .. Len(history) |->
        [role |-> IF history[i].role = "user" THEN "user" ELSE "model",
         parts |-> <<history[i].content>>]]

enhanced_prompt(prompt) ==
    prompt \o "\n\n(Please provide a concise response under 2500 characters)"

\* LLMService.generate_response; self.model is None exactly when the key is
\* falsy (LLMService.__init__)
generate_response(api_key, prompt, history, remote) ==
    IF ~bool(api_key)
    THEN LLMResponse(
             "I'm sorry, but I'm not properly configured to generate responses.",
             FALSE, "LLM service not configured")
    ELSE IF remote.status = "raise"
    THEN LLMResponse(
             "I'm experiencing technical difficulties. Please try again.",
             FALSE, "LLM request failed")
    ELSE LLMResponse(py_or(remote.text, ""), TRUE, None)

(***************************************************************************)
(* app/services/tts_service.py                                             *)
(***************************************************************************)
\* Murf's character limit, and the characters kept in front of "..."
MurfLimit == 3000
MurfKept == 2997

\* text[:3000] + "...": the cut at the limit itself
murf_text_cut_at_limit(text) ==
    IF TextLen(text) > MurfLimit
    THEN SubSeq(chars(text), 1, MurfLimit) \o <<".", ".", ".">>
    ELSE chars(text)

\* the characters put in the payload:
\* if len(text) > 3000: text = text[:2997] + "..."
murf_text(text) ==
    IF TextLen(text) > MurfLimit
    THEN SubSeq(chars(text), 1, MurfKept) \o <<".", ".", ".">>
    ELSE chars(text)

\* generate_speech without the check of the audioFile field
generate_speech_unchecked(api_key, tts_request, remote) ==
    IF ~bool(api_key)
    THEN TTSResponse("", FALSE, "TTS service not configured")
    ELSE IF remote.status = "timeout"
    THEN TTSResponse("", FALSE, "TTS request timed out")
    ELSE IF remote.status = "http_error"
    THEN TTSResponse("", FALSE, "TTS API error")
    ELSE IF remote.status = "raise"
    THEN TTSResponse("", FALSE, "TTS generation failed")
    ELSE TTSResponse(py_or(remote.audioFile, ""), TRUE, None)

\* TTSService.generate_speech; `remote` is what Murf answers if asked
generate_speech(api_key, tts_request, remote) ==
    IF ~bool(api_key)
    THEN TTSResponse("", FALSE, "TTS service not configured")
    ELSE IF remote.status = "timeout"
    THEN TTSResponse("", FALSE, "TTS request timed out")
    ELSE IF remote.status = "http_error"
    THEN TTSResponse("", FALSE, "TTS API error")
    ELSE IF remote.status = "raise"
    THEN TTSResponse("", FALSE, "TTS generation failed")
    ELSE IF ~bool(remote.audioFile)
    THEN TTSResponse("", FALSE, "No audio URL received from Murf API")
    ELSE TTSResponse(remote.audioFile, TRUE, None)

generate_fallback_audio(message) == "https://example.com/fallback-audio.mp3"

\* one adapter call, as a mock of the adapter would record it
Call(svc, remote, text, history, sent, result) ==
    [svc |-> svc, remote |-> remote, text |-> text, history |-> history,
     sent |-> sent, result |-> result]

\* the result of a call that has not returned yet
Awaited == [success |-> FALSE, error_message |-> "awaited"]

(***************************************************************************)
(* The heap of list objects.                                               *)
(***************************************************************************)
Range(f) == {f[x] : x \in DOMAIN f}

\* the lists held by the handlers, other than r, suspended in their await
HeldBut(r) ==
    {req[q].history : q \in {p \in Requests \ {r} : pc[p] = "await"}} \ {Null}

\* one module-level list used as the default of every session
SharedList(referenced) == 1

\* [] : a fresh list object, none of the referenced ones
NewList(referenced) ==
    CHOOSE o \in Objs \ referenced : \A p \in Objs \ referenced : o <= p

\* the heap once the lists nobody references are reclaimed
Collect(hp, referenced) ==
    [o \in Objs |-> IF o \in referenced THEN hp[o] ELSE <<>>]

\* the store as a caller sees it: per session id, whether the key is
\* present and the messages of its list
StoreOf(ch, hp) ==
    [s \in SessionIds |->
        [present |-> ch[s] # Null,
         messages |-> IF ch[s] # Null THEN hp[ch[s]] ELSE <<>>]]

Store == StoreOf(chat_history, heap)

(***************************************************************************)
(* app/main.py: the steps of agent_chat on the session store.  A store     *)
(* value m is [chat_history, heap, history]: the dict, the heap, and the   *)
(* handler's local variable `history`.                                     *)
(***************************************************************************)
\* history = chat_history[session_id] = [], whatever the dict holds
setdefault_reset(ch, hp, held, session_id) ==
    LET o == NewList(Range(ch) \cup held)
    IN  [chat_history |-> [ch EXCEPT ![session_id] = o],
         heap |-> [hp EXCEPT ![o] = <<>>],
         history |-> o]

\* history = chat_history.setdefault(session_id, [])
setdefault(ch, hp, held, session_id) ==
    IF ch[session_id] # Null
    THEN [chat_history |-> ch, heap |-> hp, history |-> ch[session_id]]
    ELSE LET o == NewList(Range(ch) \cup held)
         IN  [chat_history |-> [ch EXCEPT ![session_id] = o],
              heap |-> [hp EXCEPT ![o] = <<>>],
              history |-> o]

\* history + [message]: the message goes to a copy that is dropped
append_to_copy(m, message) == m

\* history.append(message)
append(m, message) ==
    [m EXCEPT !.heap = [m.heap EXCEPT ![m.history] = Append(@, message)]]

\* if len(history) > settings.max_history_length:
\*     history = history[-settings.max_history_length:]
\*     chat_history[session_id] = history
maintain_limit(m, held, session_id, max_history_length) ==
    IF Len(m.heap[m.history]) > max_history_length
    THEN LET o == NewList(Range(m.chat_history) \cup held \cup {m.history})
         IN  [chat_history |-> [m.chat_history EXCEPT ![session_id] = o],
              heap |-> [m.heap EXCEPT
                          ![o] = slice_last(m.heap[m.history], max_history_length)],
              history |-> o]
    ELSE m

\* len(chat_history.get(session_id, []))
stored_length(ch, hp, session_id) ==
    IF ch[session_id] # Null THEN Len(hp[ch[session_id]]) ELSE 0

(***************************************************************************)
(* The state of a handler invocation.                                      *)
(***************************************************************************)
NoRequest ==
    [endpoint |-> None, session_id |-> None, after_clear |-> FALSE,
     upload |-> None, history |-> Null, transcription |-> None,
     llm_response |-> None]

NoResponse == VoiceQueryResponse(None, None, None, None, NoLength, None, FALSE)

\* no handler is between building its envelope and handing it over
Quiet == \A q \in Requests : pc[q] # "done"

\* another session turn on the same session id is suspended in its await
Overlaps(r, session_id) ==
    \E q \in Requests \ {r} :
        /\ pc[q] = "await"
        /\ req[q].endpoint = "agent_chat"
        /\ req[q].session_id = session_id

\* the handler returns `envelope`
Return(r, locals, envelope, made) ==
    /\ pc' = [pc EXCEPT ![r] = "done"]
    /\ req' = [req EXCEPT ![r] = [locals EXCEPT !.history = Null]]
    /\ resp' = [resp EXCEPT ![r] = envelope]
    /\ calls' = [calls EXCEPT ![r] = made]

\* the handler is suspended in `await tts_service.generate_speech(...)`
Suspend(r, locals, made) ==
    /\ pc' = [pc EXCEPT ![r] = "await"]
    /\ req' = [req EXCEPT ![r] = locals]
    /\ resp' = resp
    /\ calls' = [calls EXCEPT ![r] = made]

\* without an except branch the exception leaves the handler
propagate_Exception(r, locals, envelope) ==
    /\ pc' = [pc EXCEPT ![r] = "raised"]
    /\ req' = [req EXCEPT ![r] = locals]
    /\ UNCHANGED <<resp, calls>>

\* `except Exception`: the handler returns the envelope of its except branch
except_Exception(r, locals, envelope) == Return(r, locals, envelope, <<>>)

\* the except branch of query_llm (history_length stays None)
query_llm_except ==
    VoiceQueryResponse(None,
        generate_fallback_audio(get_fallback("general_failure")),
        "Error occurred", get_fallback("general_failure"),
        NoLength, "general_failure", FALSE)

\* the except branch of agent_chat with history_length=0
agent_chat_except_zero(ch, hp, session_id) ==
    VoiceQueryResponse(session_id,
        generate_fallback_audio(get_fallback("general_failure")),
        "Error occurred", get_fallback("general_failure"),
        0, "general_failure", FALSE)

\* the except branch of agent_chat
agent_chat_except(ch, hp, session_id) ==
    VoiceQueryResponse(session_id,
        generate_fallback_audio(get_fallback("general_failure")),
        "Error occurred", get_fallback("general_failure"),
        stored_length(ch, hp, session_id), "general_failure", FALSE)

(***************************************************************************)
(* app/main.py: the envelopes of query_llm.                                *)
(***************************************************************************)
query_llm_keys_missing ==
    VoiceQueryResponse(None,
        generate_fallback_audio(get_fallback("api_keys_missing")),
        "API keys not configured", get_fallback("api_keys_missing"),
        NoLength, "api_keys_missing", FALSE)

\* the STT failure envelope with an empty transcription
query_llm_stt_failure_empty ==
    VoiceQueryResponse(None,
        generate_fallback_audio(get_fallback("stt_failure")),
        "", get_fallback("stt_failure"),
        NoLength, "stt_failure", FALSE)

query_llm_stt_failure ==
    VoiceQueryResponse(None,
        generate_fallback_audio(get_fallback("stt_failure")),
        "Could not transcribe audio", get_fallback("stt_failure"),
        NoLength, "stt_failure", FALSE)

query_llm_llm_failure(transcription_result, llm_result) ==
    VoiceQueryResponse(None,
        generate_fallback_audio(get_fallback("llm_failure")),
        transcription_result.transcription, llm_result.response,
        NoLength, "llm_failure", FALSE)

\* the last envelope of query_llm with history_length=0
query_llm_result_with_length(transcription, llm_response, tts_result) ==
    VoiceQueryResponse(None,
        IF tts_result.success THEN tts_result.audio_url
        ELSE generate_fallback_audio(get_fallback("tts_failure")),
        transcription, llm_response, 0,
        IF ~tts_result.success THEN "tts_failure" ELSE None,
        tts_result.success)

\* the last envelope with the test of tts_result.success inverted in `error`
query_llm_result_inverted(transcription, llm_response, tts_result) ==
    VoiceQueryResponse(None,
        IF tts_result.success THEN tts_result.audio_url
        ELSE generate_fallback_audio(get_fallback("tts_failure")),
        transcription, llm_response, NoLength,
        IF tts_result.success THEN "tts_failure" ELSE None,
        tts_result.success)

query_llm_result(transcription, llm_response, tts_result) ==
    VoiceQueryResponse(None,
        IF tts_result.success THEN tts_result.audio_url
        ELSE generate_fallback_audio(get_fallback("tts_failure")),
        transcription, llm_response, NoLength,
        IF ~tts_result.success THEN "tts_failure" ELSE None,
        tts_result.success)

(***************************************************************************)
(* app/main.py: the envelopes of agent_chat.                               *)
(***************************************************************************)
agent_chat_keys_missing(session_id) ==
    VoiceQueryResponse(session_id,
        generate_fallback_audio(get_fallback("api_keys_missing")),
        "API keys not configured", get_fallback("api_keys_missing"),
        0, "api_keys_missing", FALSE)

\* the STT failure envelope without success=False: the field keeps its
\* default, True
agent_chat_stt_failure_default_success(session_id, history_length) ==
    VoiceQueryResponse(session_id,
        generate_fallback_audio(get_fallback("stt_failure")),
        "Could not transcribe audio", get_fallback("stt_failure"),
        history_length, "stt_failure", TRUE)

agent_chat_stt_failure(session_id, history_length) ==
    VoiceQueryResponse(session_id,
        generate_fallback_audio(get_fallback("stt_failure")),
        "Could not transcribe audio", get_fallback("stt_failure"),
        history_length, "stt_failure", FALSE)

\* the LLM failure envelope with the catalogue text as llm_response
agent_chat_llm_failure_catalogue(session_id, transcription_result, llm_result, history_length) ==
    VoiceQueryResponse(session_id,
        generate_fallback_audio(get_fallback("llm_failure")),
        transcription_result.transcription, get_fallback("llm_failure"),
        history_length, "llm_failure", FALSE)

agent_chat_llm_failure(session_id, transcription_result, llm_result, history_length) ==
    VoiceQueryResponse(session_id,
        generate_fallback_audio(get_fallback("llm_failure")),
        transcription_result.transcription, llm_result.response,
        history_length, "llm_failure", FALSE)

\* the last envelope, dropping the upstream texts when TTS failed
agent_chat_result_dropping(session_id, transcription, llm_response, history_length, tts_result) ==
    VoiceQueryResponse(session_id,
        IF tts_result.success THEN tts_result.audio_url
        ELSE generate_fallback_audio(get_fallback("tts_failure")),
        IF tts_result.success THEN transcription ELSE "Error occurred",
        IF tts_result.success THEN llm_response
        ELSE get_fallback("tts_failure"),
        history_length,
        IF ~tts_result.success THEN "tts_failure" ELSE None,
        tts_result.success)

agent_chat_result(session_id, transcription, llm_response, history_length, tts_result) ==
    VoiceQueryResponse(session_id,
        IF tts_result.success THEN tts_result.audio_url
        ELSE generate_fallback_audio(get_fallback("tts_failure")),
        transcription, llm_response, history_length,
        IF ~tts_result.success THEN "tts_failure" ELSE None,
        tts_result.success)

(***************************************************************************)
(* The adapter calls as a mock of each adapter records them: the arguments *)
(* of the call, whether the remote service is contacted, and what is sent. *)
(***************************************************************************)
stt_call(st, result) ==
    Call("stt", bool(st.assemblyai_api_key), "upload", <<>>, <<>>, result)

llm_call(st, prompt, history, result) ==
    Call("llm", bool(st.gemini_api_key), prompt, history,
         IF bool(st.gemini_api_key)
         THEN <<gemini_history(history), enhanced_prompt(prompt)>> ELSE <<>>,
         result)

tts_call(st, tts_request, result) ==
    Call("tts", bool(st.murf_api_key), tts_request.text, <<>>,
         IF bool(st.murf_api_key) THEN murf_text(tts_request.text) ELSE <<>>,
         result)

\* the awaited call has returned `result`, and a failed call is made again
returned_retried(made, result) ==
    LET once == [made EXCEPT ![Len(made)].result = result]
    IN  IF result.success THEN once ELSE Append(once, once[Len(once)])

\* the awaited call has returned `result`
returned(made, result) == [made EXCEPT ![Len(made)].result = result]

(***************************************************************************)
(* app/main.py: clear_session and its response.                            *)
(***************************************************************************)
\* no clear_session ran in the latest step
NoClear == [session_id |-> None, status |-> 0, message |-> <<>>]

\* del chat_history[session_id] without the membership test: KeyError when
\* the key is absent
del_item(ch, session_id) ==
    [chat_history |-> [ch EXCEPT ![session_id] = Null],
     raised |-> IF ch[session_id] = Null THEN "KeyError" ELSE None]

\* the membership test without the del: the entry stays
discard_nothing(ch, session_id) == [chat_history |-> ch, raised |-> None]

\* if session_id in chat_history: del chat_history[session_id]
discard(ch, session_id) ==
    [chat_history |->
         IF ch[session_id] # Null THEN [ch EXCEPT ![session_id] = Null] ELSE ch,
     raised |-> None]

\* {"message": f"Session {session_id} cleared"}, or the framework's answer
\* to an exception that leaves the handler
clear_session_response(session_id, raised) ==
    IF raised = None
    THEN [session_id |-> session_id, status |-> 200,
          message |-> <<"Session ", session_id, " cleared">>]
    ELSE [session_id |-> session_id, status |-> 500,
          message |-> <<"Internal Server Error">>]

(***************************************************************************)
(* What saving the upload to temp_upload_dir can do.                       *)
(***************************************************************************)
Uploads == {"saved", "raise"}

\* the record of the messages appended to a session since its entry was
\* created: `log` extended by `messages`, of which the latest n are kept
Logged(log, messages, n) ==
    LET all == log \o messages
    IN  IF Len(all) <= n THEN all ELSE SubSeq(all, Len(all) - n + 1, Len(all))

\* the count of consecutive successful turns once a turn ended as `success`
Counted(n, success) ==
    IF success /\ n >= 0 /\ n < MaxTurns THEN n + 1 ELSE -1

(***************************************************************************)
(* POST /llm/query, from its entry to its await or its return.             *)
(***************************************************************************)
query_llm(r, upload, stt_remote, llm_remote) ==
    /\ pc[r] = "idle"
    /\ Quiet
    /\ UNCHANGED <<scope, unit, settings, chat_history, heap, turns, appended>>
    /\ cleared' = NoClear
    /\ LET entered == [NoRequest EXCEPT !.endpoint = "query_llm"]
           \* shutil.copyfileobj(file.file, buffer)
           locals == [entered EXCEPT !.upload = upload]
           transcription_result ==
               transcribe_audio(settings.assemblyai_api_key, stt_remote)
           llm_result ==
               generate_response(settings.gemini_api_key,
                                 transcription_result.transcription, <<>>,
                                 llm_remote)
           tts_request ==
               TTSRequest(llm_result.response, settings.default_voice_id,
                          settings.default_voice_style)
           c1 == stt_call(settings, transcription_result)
           c2 == llm_call(settings, transcription_result.transcription, <<>>,
                          llm_result)
           c3 == tts_call(settings, tts_request, Awaited)
       IN  IF ~all_apis_configured(settings)
           THEN Return(r, entered, query_llm_keys_missing, <<>>)
           ELSE IF upload = "raise"
           THEN except_Exception(r, locals, query_llm_except)
           ELSE IF ~transcription_result.success
           THEN Return(r, locals, query_llm_stt_failure, <<c1>>)
           ELSE IF ~llm_result.success
           THEN Return(r,
                    [locals EXCEPT
                        !.transcription = transcription_result.transcription],
                    query_llm_llm_failure(transcription_result, llm_result),
                    <<c1, c2>>)
           ELSE Suspend(r,
                    [locals EXCEPT
                        !.transcription = transcription_result.transcription,
                        !.llm_response = llm_result.response],
                    <<c1, c2, c3>>)

\* POST /llm/query, from the completion of its await to its return
query_llm_resume(r, tts_remote) ==
    /\ pc[r] = "await"
    /\ req[r].endpoint = "query_llm"
    /\ Quiet
    /\ UNCHANGED <<scope, unit, settings, chat_history, heap, turns, appended>>
    /\ cleared' = NoClear
    /\ LET tts_request ==
               TTSRequest(req[r].llm_response, settings.default_voice_id,
                          settings.default_voice_style)
           tts_result ==
               generate_speech(settings.murf_api_key, tts_request, tts_remote)
       IN  Return(r, req[r],
                  query_llm_result(req[r].transcription, req[r].llm_response,
                                   tts_result),
                  returned(calls[r], tts_result))

(***************************************************************************)
(* POST /agent/chat/{session_id}, from its entry to its await or return.   *)
(***************************************************************************)
agent_chat(r, session_id, upload, stt_remote, llm_remote) ==
    /\ pc[r] = "idle"
    /\ Quiet
    /\ UNCHANGED <<scope, unit, settings>>
    /\ cleared' = NoClear
    /\ LET entered ==
               [NoRequest EXCEPT !.endpoint = "agent_chat",
                                 !.session_id = session_id,
                                 !.after_clear =
                                     (cleared.session_id = session_id)]
           \* shutil.copyfileobj(file.file, buffer)
           locals == [entered EXCEPT !.upload = upload]
           held == HeldBut(r)
           \* history = chat_history.setdefault(session_id, [])
           m0 == setdefault(chat_history, heap, held, session_id)
           transcription_result ==
               transcribe_audio(settings.assemblyai_api_key, stt_remote)
           user_message ==
               ConversationMessage(MessageRole.USER,
                                   transcription_result.transcription)
           \* history.append(user_message), then the length limit
           m1 == maintain_limit(append(m0, user_message), held, session_id,
                                settings.max_history_length)
           \* history[:-1]
           context == slice_but_last(m1.heap[m1.history])
           llm_result ==
               generate_response(settings.gemini_api_key,
                                 transcription_result.transcription, context,
                                 llm_remote)
           assistant_message ==
               ConversationMessage(MessageRole.ASSISTANT, llm_result.response)
           \* history.append(assistant_message)
           m2 == append(m1, assistant_message)
           tts_request ==
               TTSRequest(llm_result.response, settings.default_voice_id,
                          settings.default_voice_style)
           c1 == stt_call(settings, transcription_result)
           c2 == llm_call(settings, transcription_result.transcription, context,
                          llm_result)
           c3 == tts_call(settings, tts_request, Awaited)
           first == IF Overlaps(r, session_id) THEN -1
                    ELSE IF chat_history[session_id] = Null THEN 0
                    ELSE turns[session_id]
       IN  IF ~all_apis_configured(settings)
           THEN /\ Return(r, entered, agent_chat_keys_missing(session_id), <<>>)
                /\ UNCHANGED <<chat_history, heap, appended>>
                /\ turns' = [turns EXCEPT ![session_id] = -1]
           ELSE IF upload = "raise"
           THEN /\ except_Exception(r, locals,
                          agent_chat_except(chat_history, heap, session_id))
                /\ UNCHANGED <<chat_history, heap, appended>>
                /\ turns' = [turns EXCEPT ![session_id] = -1]
           ELSE IF ~transcription_result.success
           THEN /\ Return(r, locals,
                          agent_chat_stt_failure(session_id,
                                                 Len(m0.heap[m0.history])),
                          <<c1>>)
                /\ chat_history' = m0.chat_history
                /\ heap' = Collect(m0.heap, Range(m0.chat_history) \cup held)
                /\ turns' = [turns EXCEPT ![session_id] = -1]
                /\ appended' = appended
           ELSE IF ~llm_result.success
           THEN /\ Return(r,
                          [locals EXCEPT
                              !.transcription =
                                  transcription_result.transcription],
                          agent_chat_llm_failure(session_id,
                              transcription_result, llm_result,
                              Len(m1.heap[m1.history])),
                          <<c1, c2>>)
                /\ chat_history' = m1.chat_history
                /\ heap' = Collect(m1.heap, Range(m1.chat_history) \cup held)
                /\ turns' = [turns EXCEPT ![session_id] = -1]
                /\ appended' =
                       [appended EXCEPT
                           ![session_id] =
                               Logged(@, <<user_message>>,
                                      settings.max_history_length + 1)]
           ELSE /\ Suspend(r,
                          [locals EXCEPT
                              !.history = m2.history,
                              !.transcription =
                                  transcription_result.transcription,
                              !.llm_response = llm_result.response],
                          <<c1, c2, c3>>)
                /\ chat_history' = m2.chat_history
                /\ heap' = Collect(m2.heap,
                               Range(m2.chat_history) \cup held
                                   \cup {m2.history})
                /\ turns' = [turns EXCEPT ![session_id] = first]
                /\ appended' =
                       [appended EXCEPT
                           ![session_id] =
                               Logged(@, <<user_message, assistant_message>>,
                                      settings.max_history_length + 1)]

\* agent_chat_resume with chat_history.setdefault(session_id, history) before
\* the return: the handler puts its list back when the key is gone
agent_chat_resume_restore(r, tts_remote) ==
    /\ pc[r] = "await"
    /\ req[r].endpoint = "agent_chat"
    /\ Quiet
    /\ UNCHANGED <<scope, unit, settings, appended>>
    /\ cleared' = NoClear
    /\ chat_history' =
           IF chat_history[req[r].session_id] = Null
           THEN [chat_history EXCEPT ![req[r].session_id] = req[r].history]
           ELSE chat_history
    /\ LET tts_request ==
               TTSRequest(req[r].llm_response, settings.default_voice_id,
                          settings.default_voice_style)
           tts_result ==
               generate_speech(settings.murf_api_key, tts_request, tts_remote)
       IN  /\ Return(r, req[r],
                     agent_chat_result(req[r].session_id, req[r].transcription,
                                       req[r].llm_response,
                                       Len(heap[req[r].history]), tts_result),
                     returned(calls[r], tts_result))
           /\ turns' = [turns EXCEPT
                           ![req[r].session_id] = Counted(@, tts_result.success)]
    /\ heap' = Collect(heap, Range(chat_history') \cup HeldBut(r))

\* agent_chat_resume with a read-copy-write-back of the history: the handler
\* stores the list it holds back under the session id before it returns
agent_chat_resume_writeback(r, tts_remote) ==
    /\ pc[r] = "await"
    /\ req[r].endpoint = "agent_chat"
    /\ Quiet
    /\ UNCHANGED <<scope, unit, settings, appended>>
    /\ cleared' = NoClear
    /\ chat_history' = [chat_history EXCEPT ![req[r].session_id] = req[r].history]
    /\ LET tts_request ==
               TTSRequest(req[r].llm_response, settings.default_voice_id,
                          settings.default_voice_style)
           tts_result ==
               generate_speech(settings.murf_api_key, tts_request, tts_remote)
       IN  /\ Return(r, req[r],
                     agent_chat_result(req[r].session_id, req[r].transcription,
                                       req[r].llm_response,
                                       Len(heap[req[r].history]), tts_result),
                     returned(calls[r], tts_result))
           /\ turns' = [turns EXCEPT
                           ![req[r].session_id] = Counted(@, tts_result.success)]
    /\ heap' = Collect(heap, Range(chat_history') \cup HeldBut(r))

\* POST /agent/chat/{session_id}, from the completion of its await to its
\* return
agent_chat_resume(r, tts_remote) ==
    /\ pc[r] = "await"
    /\ req[r].endpoint = "agent_chat"
    /\ Quiet
    /\ UNCHANGED <<scope, unit, settings, chat_history, appended>>
    /\ cleared' = NoClear
    /\ LET tts_request ==
               TTSRequest(req[r].llm_response, settings.default_voice_id,
                          settings.default_voice_style)
           tts_result ==
               generate_speech(settings.murf_api_key, tts_request, tts_remote)
       IN  /\ Return(r, req[r],
                     agent_chat_result(req[r].session_id, req[r].transcription,
                                       req[r].llm_response,
                                       Len(heap[req[r].history]), tts_result),
                     returned(calls[r], tts_result))
           /\ turns' = [turns EXCEPT
                           ![req[r].session_id] = Counted(@, tts_result.success)]
    /\ heap' = Collect(heap, Range(chat_history) \cup HeldBut(r))

(***************************************************************************)
(* DELETE /agent/chat/{session_id}                                         *)
(***************************************************************************)
clear_session(session_id) ==
    /\ Quiet
    /\ LET deleted == discard(chat_history, session_id)
       IN  /\ chat_history' = deleted.chat_history
           /\ cleared' = clear_session_response(session_id, deleted.raised)
    /\ heap' = Collect(heap, Range(chat_history') \cup HeldBut("none"))
    /\ turns' = [turns EXCEPT
                    ![session_id] =
                        IF Overlaps("none", session_id) THEN -1 ELSE 0]
    /\ appended' = [appended EXCEPT ![session_id] = <<>>]
    /\ UNCHANGED <<scope, unit, settings, pc, req, resp, calls>>

\* the envelope is handed to the caller; the invocation is over
Respond(r) ==
    /\ pc[r] = "done"
    /\ pc' = [pc EXCEPT ![r] = "idle"]
    /\ req' = [req EXCEPT ![r] = NoRequest]
    /\ resp' = [resp EXCEPT ![r] = NoResponse]
    /\ calls' = [calls EXCEPT ![r] = <<>>]
    /\ UNCHANGED <<scope, unit, settings, chat_history, heap, turns, appended>>
    /\ cleared' = NoClear

(***************************************************************************)
(* The adapters and the fallback catalogue called directly, as a unit test *)
(* of the services built at start-up (app/main.py 41-43) calls them.       *)
(***************************************************************************)
NoUnit == [op |-> None]

\* the prompts, histories and texts of the direct calls
Prompts == {"hello", ""}

Messages ==
    {ConversationMessage(MessageRole.USER, "hello"),
     ConversationMessage(MessageRole.ASSISTANT, "hi there")}

Histories ==
    {<<>>} \cup {<<m>> : m \in Messages}
        \cup {<<m, n>> : m \in Messages, n \in Messages}

Texts == {"hi there", "", "long 2999", "long 3000", "long 3001", "long 3500"}

\* the error types get_fallback is called with: the five categories and
\* some that the catalogue does not know
ErrorTypes ==
    {"stt_failure", "llm_failure", "tts_failure", "general_failure",
     "api_keys_missing", "unknown", "STT_FAILURE", "", None}

\* await stt_service.transcribe_audio(file_path)
unit_transcribe_audio(remote) ==
    /\ unit' = [op |-> "transcribe_audio",
                api_key |-> settings.assemblyai_api_key,
                answer |-> remote,
                call |-> stt_call(settings,
                             transcribe_audio(settings.assemblyai_api_key,
                                              remote))]
    /\ UNCHANGED <<scope, settings, chat_history, heap, pc, req, resp, calls,
                   turns, appended, cleared>>

\* llm_service.generate_response(prompt, history)
unit_generate_response(prompt, history, remote) ==
    /\ unit' = [op |-> "generate_response",
                api_key |-> settings.gemini_api_key,
                history |-> history,
                answer |-> remote,
                call |-> llm_call(settings, prompt, history,
                             generate_response(settings.gemini_api_key,
                                               prompt, history, remote))]
    /\ UNCHANGED <<scope, settings, chat_history, heap, pc, req, resp, calls,
                   turns, appended, cleared>>

\* await tts_service.generate_speech(TTSRequest(text=text, ...))
unit_generate_speech(text, remote) ==
    /\ LET tts_request ==
               TTSRequest(text, settings.default_voice_id,
                          settings.default_voice_style)
       IN  unit' = [op |-> "generate_speech",
                    api_key |-> settings.murf_api_key,
                    answer |-> remote,
                    call |-> tts_call(settings, tts_request,
                                 generate_speech(settings.murf_api_key,
                                                 tts_request, remote))]
    /\ UNCHANGED <<scope, settings, chat_history, heap, pc, req, resp, calls,
                   turns, appended, cleared>>

\* fallback_responses.get_fallback(error_type)
unit_get_fallback(error_type) ==
    /\ unit' = [op |-> "get_fallback", error_type |-> error_type,
                result |-> get_fallback(error_type)]
    /\ UNCHANGED <<scope, settings, chat_history, heap, pc, req, resp, calls,
                   turns, appended, cleared>>

(***************************************************************************)
(* The specification.                                                      *)
(***************************************************************************)
Init ==
    /\ scope \in Scopes
    /\ settings \in Settings
    /\ chat_history = [s \in SessionIds |-> Null]
    /\ heap = [o \in Objs |-> <<>>]
    /\ pc = [r \in Requests |-> "idle"]
    /\ req = [r \in Requests |-> NoRequest]
    /\ resp = [r \in Requests |-> NoResponse]
    /\ calls = [r \in Requests |-> <<>>]
    /\ turns = [s \in SessionIds |-> 0]
    /\ appended = [s \in SessionIds |-> <<>>]
    /\ cleared = NoClear
    /\ unit = NoUnit

Next ==
    \/ \E r \in scope.requests, upload \in Uploads, stt_remote \in SttRemote,
          llm_remote \in LlmRemote :
           query_llm(r, upload, stt_remote, llm_remote)
    \/ \E r \in scope.requests, tts_remote \in TtsRemote :
           query_llm_resume(r, tts_remote)
    \/ \E r \in scope.requests, session_id \in scope.sessions, upload \in Uploads,
          stt_remote \in SttRemote, llm_remote \in LlmRemote :
           agent_chat(r, session_id, upload, stt_remote, llm_remote)
    \/ \E r \in scope.requests, tts_remote \in TtsRemote :
           agent_chat_resume(r, tts_remote)
    \/ \E session_id \in scope.sessions : clear_session(session_id)
    \/ \E r \in scope.requests : Respond(r)

Spec == Init /\ [][Next]_vars

\* The direct calls: the services are built from any Settings; the handlers
\* stay idle.
UnitInit ==
    /\ Init
    /\ scope = [sessions |-> SessionIds, requests |-> {"r1"}]
    /\ settings.max_history_length = 1

UnitNext ==
    \/ \E remote \in SttRemote : unit_transcribe_audio(remote)
    \/ \E prompt \in Prompts, history \in Histories, remote \in LlmRemote :
           unit_generate_response(prompt, history, remote)
    \/ \E text \in Texts, remote \in TtsRemote : unit_generate_speech(text, remote)
    \/ \E error_type \in ErrorTypes : unit_get_fallback(error_type)

UnitSpec == UnitInit /\ [][UnitNext]_vars

TypeOK ==
    /\ scope \in Scopes
    /\ settings \in Settings
    /\ chat_history \in [SessionIds -> Objs \cup {Null}]
    /\ pc \in [Requests -> {"idle", "await", "done"}]
    /\ turns \in [SessionIds -> -1 .. MaxTurns]
    /\ \A o \in Objs : Len(heap[o]) <= MaxHistoryLength + 2

(***************************************************************************)
(* The claims.                                                             *)
(***************************************************************************)
Min(a, b) == IF a <= b THEN a ELSE b

\* the handlers that have built their envelope
Returning == {r \in Requests : pc[r] = "done"}

FallbackUrl == generate_fallback_audio(GENERAL_FAILURE)

\* C1: in every reachable state every stored session history has at most
\* max_history_length messages, also right after the assistant message of a
\* turn has been appended.
C1_HistoryWithinLimit ==
    \A s \in SessionIds :
        Len(Store[s].messages) <= settings.max_history_length

\* C2: a session that starts absent and then sees N consecutive turns in
\* which STT, LLM and TTS all succeed has, at the return of the N-th turn, a
\* reported history_length and a stored history length of min(2N, H).
C2_LengthAfterTurns ==
    \A r \in Returning :
        (req[r].endpoint = "agent_chat" /\ turns[req[r].session_id] >= 1) =>
            LET n == turns[req[r].session_id]
                expected == Min(2 * n, settings.max_history_length)
            IN  /\ resp[r].history_length = expected
                /\ Len(Store[req[r].session_id].messages) = expected

\* C3: every envelope returned by query_llm or agent_chat has a non-empty
\* audio_url: the URL the TTS call produced when the request succeeded, the
\* fallback URL on every failure branch.
C3_AudioUrlPresent ==
    \A r \in Returning :
        /\ bool(resp[r].audio_url)
        /\ resp[r].success =>
               /\ Len(calls[r]) = 3
               /\ calls[r][3].result.success
               /\ resp[r].audio_url = calls[r][3].result.audio_url
        /\ ~resp[r].success => resp[r].audio_url = FallbackUrl

C3_Witness ==
    \E r \in Returning :
        /\ Len(calls[r]) = 3
        /\ calls[r][3].result.error_message = "No audio URL received from Murf API"
        /\ resp[r].audio_url = FallbackUrl

\* The event loop runs every handler whose awaited TTS call has returned, and
\* every adapter call returns: a suspended handler is resumed, and a handler
\* that has built its envelope hands it over.
Fairness ==
    \A r \in Requests :
        /\ SF_vars(\E tts_remote \in TtsRemote : query_llm_resume(r, tts_remote))
        /\ SF_vars(\E tts_remote \in TtsRemote : agent_chat_resume(r, tts_remote))
        /\ WF_vars(Respond(r))

\* Whether a handler returns does not depend on the length limit: the
\* behaviours with fairness are those of the shortest limit.
FairInit == Init /\ settings.max_history_length = 1

FairSpec == FairInit /\ [][Next]_vars /\ Fairness

\* C4: provided each adapter call returns, every stateless query and every
\* session turn that was started reaches its return with an envelope, whatever
\* the stage outcomes and also when an unexpected exception is raised.
C4_EveryRequestReturns ==
    \A r \in Requests :
        (pc[r] # "idle") ~> (pc[r] = "done" /\ bool(resp[r].audio_url))

C4_Witness ==
    \E r \in Returning :
        /\ resp[r].error = "general_failure"
        /\ calls[r] = <<>>

\* the call of the STT adapter made by handler r failed
SttFailed(r) ==
    /\ Len(calls[r]) >= 1
    /\ calls[r][1].svc = "stt"
    /\ ~calls[r][1].result.success

\* C5: in query_llm and in agent_chat, when the STT stage returns failure the
\* LLM and TTS adapters are not invoked for that request, and the envelope
\* has error stt_failure, success false, the fallback audio URL and the
\* placeholder transcription.
C5_SttFailureStops ==
    \A r \in Returning :
        SttFailed(r) =>
            /\ Len(calls[r]) = 1
            /\ resp[r].error = "stt_failure"
            /\ resp[r].success = FALSE
            /\ resp[r].audio_url = FallbackUrl
            /\ resp[r].transcription = "Could not transcribe audio"

C5_Witness ==
    \E r \in Returning :
        /\ req[r].endpoint = "query_llm"
        /\ SttFailed(r)
        /\ calls[r][1].result.error_message = "Transcription error"

\* handler r, a session turn, runs from its entry to a return after a failed
\* STT stage
SttFailedTurn(r) ==
    /\ pc[r] = "idle"
    /\ pc'[r] = "done"
    /\ req'[r].endpoint = "agent_chat"
    /\ resp'[r].error = "stt_failure"

\* C6 as stated: a session turn whose STT stage fails leaves the session
\* store exactly as it was before the request; no message is appended and no
\* session entry is created or changed, also for an unseen session id.
C6_StoreUntouched ==
    [][\A r \in Requests : SttFailedTurn(r) => Store' = Store]_vars

\* C6 as amended: a session turn whose STT stage fails appends no message
\* and changes or removes no existing session entry; the only effect on the
\* store is that an unseen session id gets an entry with an empty history.
C6_NoMessageAppended ==
    [][\A r \in Requests :
          SttFailedTurn(r) =>
              \A s \in SessionIds :
                  /\ Store'[s].messages = Store[s].messages
                  /\ Store'[s].present =
                        (Store[s].present \/ s = req'[r].session_id)]_vars

C6_Witness ==
    \E r \in Returning :
        /\ req[r].endpoint = "agent_chat"
        /\ resp[r].error = "stt_failure"
        /\ resp[r].history_length = 0
        /\ Store[req[r].session_id].present
        /\ Store[req[r].session_id].messages = <<>>

\* the three adapter calls of handler r, the first two successful
Synthesized(r) ==
    /\ Len(calls[r]) = 3
    /\ calls[r][1].result.success
    /\ calls[r][2].result.success

\* C7: when STT and LLM succeed and TTS fails, the envelope keeps the STT
\* text as transcription and the LLM text as llm_response, and has the
\* fallback audio URL, success false and error tts_failure.
C7_TtsFailureKeepsTexts ==
    \A r \in Returning :
        (Synthesized(r) /\ ~calls[r][3].result.success) =>
            /\ resp[r].transcription = calls[r][1].result.transcription
            /\ resp[r].llm_response = calls[r][2].result.response
            /\ resp[r].audio_url = FallbackUrl
            /\ resp[r].success = FALSE
            /\ resp[r].error = "tts_failure"

C7_Witness ==
    \E r \in Returning :
        /\ Synthesized(r)
        /\ calls[r][3].result.error_message = "TTS request timed out"
        /\ resp[r].transcription = "hello"
        /\ resp[r].llm_response = "hi there"

\* C8: when STT succeeds and the LLM stage fails, the TTS adapter is not
\* invoked, and the envelope has error llm_failure, success false, the
\* fallback audio URL, the STT text as transcription and, as llm_response,
\* the placeholder text the LLM adapter returned.
C8_LlmFailureSkipsTts ==
    \A r \in Returning :
        (/\ Len(calls[r]) >= 2
         /\ calls[r][1].result.success
         /\ ~calls[r][2].result.success) =>
            /\ Len(calls[r]) = 2
            /\ resp[r].error = "llm_failure"
            /\ resp[r].success = FALSE
            /\ resp[r].audio_url = FallbackUrl
            /\ resp[r].transcription = calls[r][1].result.transcription
            /\ resp[r].llm_response = calls[r][2].result.response

C8_Witness ==
    \E r \in Returning :
        /\ Len(calls[r]) = 2
        /\ calls[r][2].svc = "llm"
        /\ ~calls[r][2].result.success
        /\ resp[r].llm_response =
               "I'm experiencing technical difficulties. Please try again."

\* C9: when the three adapters are configured and STT, LLM and TTS all
\* succeed, the envelope carries the STT text as transcription, the LLM text
\* as llm_response and the TTS URL as audio_url, with success true and no
\* error.
C9_SuccessEnvelope ==
    \A r \in Returning :
        (Synthesized(r) /\ calls[r][3].result.success) =>
            /\ all_apis_configured(settings)
            /\ resp[r].transcription = calls[r][1].result.transcription
            /\ resp[r].llm_response = calls[r][2].result.response
            /\ resp[r].audio_url = calls[r][3].result.audio_url
            /\ resp[r].success = TRUE
            /\ resp[r].error = None

C9_Witness ==
    \E r \in Returning :
        /\ resp[r].transcription = "hello"
        /\ resp[r].llm_response = "hi there"
        /\ resp[r].audio_url = "http://x/a.mp3"
        /\ resp[r].success

\* C10: a session turn or stateless query issued while one of the three
\* adapters is unconfigured returns at once with error api_keys_missing,
\* success false and the fallback audio URL (history_length 0 for a session
\* turn), makes no STT, LLM or TTS call and leaves the session store as it
\* was.
C10_KeysMissingShortCircuit ==
    [][\A r \in Requests :
          (pc[r] = "idle" /\ pc'[r] # "idle"
              /\ ~(\A k \in {settings.assemblyai_api_key,
                             settings.gemini_api_key,
                             settings.murf_api_key} : bool(k))) =>
              /\ pc'[r] = "done"
              /\ resp'[r].error = "api_keys_missing"
              /\ resp'[r].success = FALSE
              /\ resp'[r].audio_url = FallbackUrl
              /\ (req'[r].endpoint = "agent_chat") =>
                     resp'[r].history_length = 0
              /\ calls'[r] = <<>>
              /\ chat_history' = chat_history
              /\ heap' = heap]_vars

C10_Witness ==
    \E r \in Returning :
        /\ req[r].endpoint = "agent_chat"
        /\ resp[r].error = "api_keys_missing"
        /\ bool(settings.assemblyai_api_key)
        /\ bool(settings.gemini_api_key)
        /\ ~bool(settings.murf_api_key)

\* a is a contiguous suffix of b
IsSuffix(a, b) ==
    /\ Len(a) <= Len(b)
    /\ a = SubSeq(b, Len(b) - Len(a) + 1, Len(b))

\* handler r, a session turn, runs from its entry past a successful STT stage
TranscribedTurn(r) ==
    /\ pc[r] = "idle"
    /\ pc'[r] # "idle"
    /\ req'[r].endpoint = "agent_chat"
    /\ Len(calls'[r]) >= 2
    /\ calls'[r][1].result.success

\* the messages such a turn is to append: the user message with the STT text
\* and, when the LLM call succeeded, the assistant message with the LLM text
TurnMessages(made) ==
    <<ConversationMessage("user", made[1].result.transcription)>>
        \o (IF made[2].result.success
            THEN <<ConversationMessage("assistant", made[2].result.response)>>
            ELSE <<>>)

\* C11: a session turn whose STT succeeds appends exactly one user message
\* whose content is the STT text (not the prompt sent to the LLM service),
\* followed by exactly one assistant message with the LLM text if and only if
\* the LLM call succeeds; the turn appends nothing else, and the completion
\* of the TTS call, successful or not, appends and removes nothing.
C11_OneUserOneAssistant ==
    [][\A r \in Requests :
          /\ TranscribedTurn(r) =>
                LET s == req'[r].session_id
                    old == Store[s].messages
                IN  /\ \E k \in 0 .. Len(old) :
                           Store'[s].messages =
                               SubSeq(old, k + 1, Len(old))
                                   \o TurnMessages(calls'[r])
                    /\ \A t \in SessionIds \ {s} : Store'[t] = Store[t]
                    /\ calls'[r][2].sent # <<>> =>
                           calls'[r][2].sent[2] # calls'[r][1].result.transcription
          /\ (pc[r] = "await" /\ pc'[r] = "done") => Store' = Store]_vars

C11_Witness ==
    \E r \in Returning :
        /\ req[r].endpoint = "agent_chat"
        /\ Synthesized(r)
        /\ ~calls[r][3].result.success
        /\ Len(Store[req[r].session_id].messages) >= 2
        /\ SubSeq(Store[req[r].session_id].messages,
                  Len(Store[req[r].session_id].messages) - 1,
                  Len(Store[req[r].session_id].messages))
               = <<ConversationMessage("user", "hello"),
                   ConversationMessage("assistant", "hi there")>>

\* C12: on a session turn the user message is appended and the length limit
\* applied before the LLM adapter is called; the history the call receives is
\* the stored history of that moment without its last element, so it holds
\* messages of earlier turns only and not the user message of this turn, and
\* the prompt it receives is the transcription of this turn.
C12_LlmSeesPriorTurns ==
    [][\A r \in Requests :
          TranscribedTurn(r) =>
              LET s == req'[r].session_id
                  llm == calls'[r][2]
              IN  /\ llm.svc = "llm"
                  /\ llm.text = calls'[r][1].result.transcription
                  /\ Store'[s].messages = llm.history \o TurnMessages(calls'[r])
                  /\ IsSuffix(llm.history, Store[s].messages)
                  /\ Len(llm.history) + 1 <= settings.max_history_length]_vars

C12_Witness ==
    \E r \in Requests :
        /\ pc[r] = "await"
        /\ req[r].endpoint = "agent_chat"
        /\ settings.max_history_length = 2
        /\ calls[r][2].text = "hello"
        /\ calls[r][2].history = <<ConversationMessage("assistant", "hi there")>>
        /\ Store[req[r].session_id].messages =
               <<ConversationMessage("assistant", "hi there"),
                 ConversationMessage("user", "hello"),
                 ConversationMessage("assistant", "")>>

\* C13: between two clears the stored history of a session is a contiguous
\* suffix, in append order, of the messages appended to the session, and it
\* keeps at least the latest max_history_length of them; right after the
\* length limit has been applied (the state a turn returns in when its LLM
\* stage failed) it is exactly the latest max_history_length of them.
C13_RecencySuffix ==
    /\ \A s \in SessionIds :
           /\ IsSuffix(Store[s].messages, appended[s])
           /\ Len(Store[s].messages) >=
                  Min(Len(appended[s]), settings.max_history_length)
    /\ \A r \in Returning :
           (/\ req[r].endpoint = "agent_chat"
            /\ Len(calls[r]) = 2
            /\ calls[r][1].result.success) =>
               Len(Store[req[r].session_id].messages) =
                   Min(Len(appended[req[r].session_id]),
                       settings.max_history_length)

C13_Witness ==
    \E r \in Returning :
        /\ req[r].endpoint = "agent_chat"
        /\ Len(calls[r]) = 2
        /\ ~calls[r][2].result.success
        /\ Len(appended[req[r].session_id]) = settings.max_history_length + 1
        /\ appended[req[r].session_id][1] # appended[req[r].session_id][2]
        /\ Store[req[r].session_id].messages =
               SubSeq(appended[req[r].session_id], 2,
                      settings.max_history_length + 1)

\* C14: clear_session is idempotent: after each of two calls in a row for the
\* same session id the session is absent, and the second call reports no
\* error; a call for a session id that has no entry reports no error either
\* and leaves the store as it was.
C14_ClearIdempotent ==
    [][cleared' # NoClear =>
          LET x == cleared'.session_id
          IN  /\ ~Store'[x].present
              /\ cleared'.status = 200
              /\ cleared'.message = <<"Session ", x, " cleared">>
              /\ \A t \in SessionIds \ {x} : Store'[t] = Store[t]
              /\ ~Store[x].present => (chat_history' = chat_history /\ heap' = heap)
              /\ cleared.session_id = x =>
                     (~Store[x].present /\ cleared' = cleared)]_vars

\* clear_session has answered for a session id while another session has
\* messages; a further call for the same id starts and ends in this state
C14_Witness ==
    /\ cleared # NoClear
    /\ cleared.status = 200
    /\ ~Store[cleared.session_id].present
    /\ turns[cleared.session_id] = 0
    /\ appended[cleared.session_id] = <<>>
    /\ \E t \in SessionIds \ {cleared.session_id} : Store[t].messages # <<>>

\* session turns p and q are suspended in their await on the same session id
\* and p is the one that resumes: the two turns overlap
FirstOfTwoResumes(p, q) ==
    /\ p # q
    /\ pc[p] = "await" /\ pc[q] = "await"
    /\ req[p].endpoint = "agent_chat" /\ req[q].endpoint = "agent_chat"
    /\ req[p].session_id = req[q].session_id
    /\ pc'[p] = "done"

\* one of a, b is a contiguous suffix of the other
SameTail(a, b) == IsSuffix(a, b) \/ IsSuffix(b, a)

\* C15: when two session turns on one session id overlap, no update is lost:
\* the messages of the turn that started last are the latest appended to the
\* session, the stored history is the suffix of the appended messages that
\* the length limit leaves, and a turn that finishes while the other is in
\* flight changes nothing in the store.
C15_NoLostUpdate ==
    [][\A p, q \in Requests :
          FirstOfTwoResumes(p, q) =>
              LET s == req[p].session_id
                  P == TurnMessages(calls[p])
                  Q == TurnMessages(calls[q])
              IN  /\ Store' = Store
                  /\ IsSuffix(Store[s].messages, appended[s])
                  /\ Len(Store[s].messages) >=
                         Min(Len(appended[s]), settings.max_history_length)
                  /\ \/ SameTail(appended[s], P)
                     \/ SameTail(appended[s], Q)]_vars

\* the first of two overlapping turns has finished; the other one holds a
\* list that is no longer the one stored under the session id
C15_Witness ==
    \E p, q \in Requests :
        /\ pc[p] = "done" /\ pc[q] = "await"
        /\ req[p].endpoint = "agent_chat" /\ req[q].endpoint = "agent_chat"
        /\ req[p].session_id = req[q].session_id
        /\ Len(calls[p]) = 3
        /\ req[q].history # chat_history[req[q].session_id]
        /\ settings.max_history_length = 2
        /\ Len(Store[req[q].session_id].messages) = 3

\* the order of the stages of the pipeline
Stages == <<"stt", "llm", "tts">>

\* C16: within one request the STT, LLM and TTS adapters are each called at
\* most once, in this order and one after the other has returned; the LLM is
\* called only after a successful STT call and TTS only after a successful
\* LLM call, and a failed call is not made again.
C16_OncePerStageInOrder ==
    \A r \in Requests :
        /\ Len(calls[r]) <= 3
        /\ \A i \in 1 .. Len(calls[r]) :
               /\ calls[r][i].svc = Stages[i]
               /\ i < Len(calls[r]) =>
                      (calls[r][i].result # Awaited /\ calls[r][i].result.success)
        /\ pc[r] = "await" <=>
               (Len(calls[r]) = 3 /\ calls[r][3].result = Awaited)
        /\ (Len(calls[r]) >= 1 /\ ~calls[r][Len(calls[r])].result.success
                /\ pc[r] = "done") =>
               resp[r].error = Stages[Len(calls[r])] \o "_failure"

C16_Witness ==
    \E r \in Requests :
        /\ pc[r] = "await"
        /\ calls[r][1].svc = "stt" /\ calls[r][1].result.success
        /\ calls[r][2].svc = "llm" /\ calls[r][2].result.success
        /\ calls[r][3].svc = "tts" /\ calls[r][3].result = Awaited

\* C17: a stateless query or session turn in which an unexpected exception
\* is raised still returns an envelope, with error general_failure, success
\* false, the fallback audio URL and the placeholder texts; the envelope of
\* a session turn reports as history_length the number of messages stored
\* for the session at that moment, 0 when the session has no entry.
C17_ExceptionEnvelope ==
    \A r \in Requests :
        req[r].upload = "raise" =>
            /\ pc[r] = "done"
            /\ resp[r].error = "general_failure"
            /\ resp[r].success = FALSE
            /\ resp[r].audio_url = FallbackUrl
            /\ resp[r].transcription = "Error occurred"
            /\ resp[r].llm_response = GENERAL_FAILURE
            /\ req[r].endpoint = "agent_chat" =>
                   /\ resp[r].session_id = req[r].session_id
                   /\ resp[r].history_length =
                          IF Store[req[r].session_id].present
                          THEN Len(Store[req[r].session_id].messages)
                          ELSE 0

C17_Witness ==
    \E r \in Returning :
        /\ req[r].upload = "raise"
        /\ req[r].endpoint = "agent_chat"
        /\ resp[r].error = "general_failure"
        /\ resp[r].history_length = settings.max_history_length + 1

\* C18: when the LLM service answers with an empty text the LLM adapter
\* reports failure and the request takes the llm_failure branch: no TTS call
\* is made, no assistant message is appended to the session, and the
\* envelope has error llm_failure.
C18_EmptyLlmTextFails ==
    \A r \in Requests :
        (Len(calls[r]) >= 2 /\ calls[r][2].result.response = "") =>
            /\ ~calls[r][2].result.success
            /\ Len(calls[r]) = 2
            /\ pc[r] = "done"
            /\ resp[r].error = "llm_failure"
            /\ req[r].endpoint = "agent_chat" =>
                   \A i \in 1 .. Len(Store[req[r].session_id].messages) :
                       Store[req[r].session_id].messages[i] #
                           ConversationMessage("assistant", "")

\* the failure each adapter returns when it has no credential
NotConfigured ==
    [transcribe_audio |->
         TranscriptionResponse("", FALSE, "STT service not configured"),
     generate_response |->
         LLMResponse(
             "I'm sorry, but I'm not properly configured to generate responses.",
             FALSE, "LLM service not configured"),
     generate_speech |-> TTSResponse("", FALSE, "TTS service not configured")]

\* C19: transcribe_audio, generate_response and generate_speech, called on an
\* adapter that has no credential, return a failure result marked as not
\* configured, whatever the remote service would answer: the remote call is
\* not made, nothing is sent, and the call returns instead of raising.
C19_UnconfiguredAdapterFails ==
    (unit.op \in DOMAIN NotConfigured /\ ~bool(unit.api_key)) =>
        /\ unit.call.result = NotConfigured[unit.op]
        /\ unit.call.result.success = FALSE
        /\ unit.call.remote = FALSE
        /\ unit.call.sent = <<>>

C19_Witness ==
    /\ unit.op = "transcribe_audio"
    /\ unit.api_key = ""
    /\ unit.answer.status = "completed"
    /\ unit.call.result.error_message = "STT service not configured"

\* the catalogue of fallback messages, per category
Catalogue ==
    [stt_failure |-> STT_FAILURE, llm_failure |-> LLM_FAILURE,
     tts_failure |-> TTS_FAILURE, general_failure |-> GENERAL_FAILURE,
     api_keys_missing |-> API_KEYS_MISSING]

\* C20: get_fallback is total: for each of the five categories it returns the
\* fixed message of that category, for any other input the message of
\* general_failure; it returns a message in every case.
C20_FallbackTotal ==
    unit.op = "get_fallback" =>
        /\ unit.result =
               IF unit.error_type \in DOMAIN Catalogue
               THEN Catalogue[unit.error_type]
               ELSE Catalogue["general_failure"]
        /\ bool(unit.result)
        /\ Cardinality({Catalogue[c] : c \in DOMAIN Catalogue}) = 5

C20_Witness ==
    /\ unit.op = "get_fallback"
    /\ unit.error_type = "unknown"
    /\ unit.result =
           "I'm experiencing technical difficulties. Please try again later."

\* C21: generate_speech never sends more than 3000 characters and does not
\* fail because of the length of the text: a text of at most 3000 characters
\* is sent as it is, a longer one as its first 2997 characters followed by
\* "...", which are 3000 characters.
C21_TextWithinMurfLimit ==
    (unit.op = "generate_speech" /\ bool(unit.api_key)) =>
        LET text == chars(unit.call.text)
            sent == unit.call.sent
        IN  /\ Len(sent) <= 3000
            /\ Len(text) <= 3000 => sent = text
            /\ Len(text) > 3000 =>
                   /\ Len(sent) = 3000
                   /\ SubSeq(sent, 1, 2997) = SubSeq(text, 1, 2997)
                   /\ SubSeq(sent, 2998, 3000) = <<".", ".", ".">>
            /\ (unit.answer.status = "ok" /\ bool(unit.answer.audioFile)) =>
                   unit.call.result.success

C21_Witness ==
    /\ unit.op = "generate_speech"
    /\ unit.call.text = "long 3001"
    /\ Len(unit.call.sent) = 3000
    /\ unit.call.sent[2997] = "a"
    /\ unit.call.sent[2998] = "."
    /\ unit.call.result.success

\* C22: every adapter turns every outcome of its remote call into a result:
\* generate_speech returns success false and an empty audio_url for a
\* timeout, a non-2xx status, an answer without the audio field and any
\* other error of the transport; transcribe_audio and generate_response
\* return success false for an error the service reports and for any raised
\* exception.  No call ends otherwise than with a result.
C22_RemoteFailureIsResult ==
    (unit.op \in DOMAIN NotConfigured /\ bool(unit.api_key)) =>
        LET result == unit.call.result
            failed == \/ unit.answer.status \in
                             {"timeout", "http_error", "error", "raise"}
                      \/ /\ unit.op = "generate_speech"
                         /\ ~bool(unit.answer.audioFile)
        IN  /\ result.success \in BOOLEAN
            /\ failed => /\ result.success = FALSE
                         /\ bool(result.error_message)
                         /\ unit.op = "generate_speech" => result.audio_url = ""

C22_Witness ==
    /\ unit.op = "generate_speech"
    /\ bool(unit.api_key)
    /\ unit.answer.status = "http_error"
    /\ unit.call.result = TTSResponse("", FALSE, "TTS API error")

\* C23: the envelope of the pre-flight short-circuit (one of the adapters is
\* unconfigured) has an empty transcription and an empty llm_response.
C23_KeysMissingEmptyTexts ==
    \A r \in Returning :
        resp[r].error = "api_keys_missing" =>
            /\ resp[r].transcription = ""
            /\ resp[r].llm_response = ""

\* C24: the history_length of the envelope of a session turn is the length
\* of the history stored for the session when the envelope is built, also
\* when another turn on the session (with or without eviction) or a
\* clear_session of it ran while the turn was suspended in its TTS call.
C24_LengthIsStoredLength ==
    \A r \in Returning :
        req[r].endpoint = "agent_chat" =>
            resp[r].history_length = Len(Store[req[r].session_id].messages)

\* C25: the session turn on x that follows clear_session(x) behaves as the
\* first turn on an unseen id: the LLM adapter receives an empty history
\* and, when no other request on x runs meanwhile, the stored history is the
\* user and assistant messages of this turn and, all stages successful, the
\* returned history_length is 2.
C25_TurnAfterClearIsFirst ==
    \A r \in Requests :
        (req[r].after_clear /\ Len(calls[r]) >= 2) =>
            /\ calls[r][2].history = <<>>
            /\ calls[r][2].sent # <<>> => calls[r][2].sent[1] = <<>>
            /\ (Len(calls[r]) = 3 /\ turns[req[r].session_id] >= 0) =>
                   /\ Store[req[r].session_id].messages =
                          TurnMessages(calls[r])
                   /\ Len(Store[req[r].session_id].messages) = 2
                   /\ (pc[r] = "done" /\ resp[r].success) =>
                          resp[r].history_length = 2

C25_Witness ==
    \E r \in Returning :
        /\ req[r].after_clear
        /\ resp[r].success
        /\ resp[r].history_length = 2
        /\ settings.max_history_length = 1
        /\ Store[req[r].session_id].messages =
               <<ConversationMessage("user", "hello"),
                 ConversationMessage("assistant", "hi there")>>

\* C26: when clear_session(x) runs while a session turn on x is in flight,
\* x is still absent once the turn has finished: the turn, resumed after its
\* TTS call, neither creates the entry again nor stores messages for x.
C26_ClearedStaysAbsent ==
    [][\A r \in Requests :
          (/\ pc[r] = "await"
           /\ pc'[r] = "done"
           /\ req[r].endpoint = "agent_chat"
           /\ ~Store[req[r].session_id].present) =>
              /\ ~Store'[req[r].session_id].present
              /\ Store'[req[r].session_id].messages = <<>>
              /\ chat_history' = chat_history]_vars

\* a turn has finished whose session was cleared during its TTS call
C26_Witness ==
    \E r \in Returning :
        /\ req[r].endpoint = "agent_chat"
        /\ Len(calls[r]) = 3
        /\ resp[r].success
        /\ ~Store[req[r].session_id].present
        /\ \A q \in Requests \ {r} : pc[q] = "idle"

\* the session id a step operates on: that of the session turn which starts
\* or resumes in the step, or that of the clear_session the step is
SteppedSessions ==
    {req'[r].session_id : r \in {q \in Requests :
                                    /\ pc'[q] # pc[q]
                                    /\ pc'[q] # "idle"
                                    /\ req'[q].endpoint = "agent_chat"}}
        \cup (IF cleared' # NoClear THEN {cleared'.session_id} ELSE {})

C28_StatelessQueryFrame ==
    [][\A r \in Requests :
          (pc'[r] # pc[r] /\ pc'[r] # "idle"
              /\ req'[r].endpoint = "query_llm") =>
              /\ chat_history' = chat_history
              /\ heap' = heap
              /\ appended' = appended
              /\ \A i \in 1 .. Len(calls'[r]) : calls'[r][i].history = <<>>
              /\ pc'[r] = "done" =>
                     /\ resp'[r].history_length = NoLength
                     /\ resp'[r].session_id = None]_vars

C28_Witness ==
    \E r \in Returning :
        /\ req[r].endpoint = "query_llm"
        /\ resp[r].success
        /\ resp[r].history_length = NoLength
        /\ resp[r].session_id = None
        /\ \E s \in SessionIds : Len(Store[s].messages) >= 2

\* the five error categories
ErrorCategories ==
    {"stt_failure", "llm_failure", "tts_failure", "api_keys_missing",
     "general_failure"}

\* C29: in every envelope of a stateless query or a session turn success is
\* true exactly when error is None; an error is one of the five categories:
\* that of the first (and only) stage whose adapter call failed,
\* api_keys_missing when the pre-flight check stopped the request, and
\* general_failure when an exception did.
C29_SuccessIffNoError ==
    \A r \in Returning :
        LET n == Len(calls[r])
        IN  /\ resp[r].success <=> (resp[r].error = None)
            /\ resp[r].error # None => resp[r].error \in ErrorCategories
            /\ resp[r].error \in {"stt_failure", "llm_failure", "tts_failure"} <=>
                   (n >= 1 /\ ~calls[r][n].result.success)
            /\ (n >= 1 /\ ~calls[r][n].result.success) =>
                   /\ resp[r].error = Stages[n] \o "_failure"
                   /\ \A i \in 1 .. n - 1 : calls[r][i].result.success
            /\ resp[r].error = "api_keys_missing" <=>
                   ~(\A k \in {settings.assemblyai_api_key,
                               settings.gemini_api_key,
                               settings.murf_api_key} : bool(k))
            /\ resp[r].error = "general_failure" <=> req[r].upload = "raise"

C29_Witness ==
    \E r, q \in Requests :
        /\ pc[r] = "done" /\ pc[q] = "await"
        /\ resp[r].success = FALSE
        /\ resp[r].error = "llm_failure"
        /\ calls[r][1].result.success

\* C30: the history generate_response hands to the external model has the
\* length and the order of the history it was called with, every user
\* message with role "user" and every assistant message with role "model",
\* each with the content of its message; the history it was called with is
\* the same after the call.
C30_GeminiHistoryMapping ==
    (unit.op = "generate_response" /\ bool(unit.api_key)) =>
        LET given == unit.history
            handed == unit.call.sent[1]
        IN  /\ Len(handed) = Len(given)
            /\ \A i \in 1 .. Len(given) :
                   /\ given[i].role = "user" => handed[i].role = "user"
                   /\ given[i].role = "assistant" => handed[i].role = "model"
                   /\ handed[i].parts = <<given[i].content>>
            /\ unit.call.history = given

C30_Witness ==
    /\ unit.op = "generate_response"
    /\ bool(unit.api_key)
    /\ unit.history = <<ConversationMessage("assistant", "hi there"),
                        ConversationMessage("user", "hello")>>
    /\ unit.call.sent[1] = <<[role |-> "model", parts |-> <<"hi there">>],
                             [role |-> "user", parts |-> <<"hello">>]>>

====
